---- MODULE Spec2Model ----
(***************************************************************************)
(* Video Splitter (src/app.py): time parsing, aspect-ratio crop geometry,  *)
(* segment planning inside the page script, per-segment extraction and the *)
(* archive of the outputs, as one Streamlit session.                       *)
(*                                                                         *)
(* Texts are modelled by their split on the separator the code splits on:  *)
(* a time or ratio text is the sequence of its ':'-separated tokens, the   *)
(* probe's dimension line the sequence of its ','-separated tokens.  A     *)
(* text without separator is a one-token sequence, the empty text <<"">>.  *)
(* Python floats are records [nan, v]: v counts tenths of a second, nan is *)
(* the IEEE not-a-number, whose every comparison is false.                 *)
(***************************************************************************)
EXTENDS Integers, Sequences, FiniteSets, TLC

VARIABLES
    sessionActive,        \* 'app' is in st.session_state
    temp_dir,             \* the directory made by tempfile.mkdtemp() exists
    downloaded,           \* a downloaded source file lies in temp_dir
    output_dir,           \* names of the files lying in temp_dir/output_videos
    source,               \* what ffprobe prints for the downloaded file
    video_path,           \* st.session_state.video_path
    video_info,           \* st.session_state.video_info
    requests,             \* the segment widgets: num_segments rows of texts
    segments,             \* main's list `segments` in the last script run
    notices,              \* st.error / st.warning / st.success of the planning loop
    crash,                \* uncaught exception that ended the last script run
    rendered,             \* number of segment rows the last script run drew
    ran,                  \* the last script run went through "Process All Segments"
    tool,                 \* what ffmpeg did for each segment of the last run
    commands,             \* the ffmpeg invocations of the last run
    successful_segments,  \* main's list `successful_segments`
    failed_segments,      \* main's list `failed_segments`
    zip_members,          \* member names of the archive built in the last run
    parse_text,           \* input of a stand-alone parse_time_input call
    parse_result,         \* its result
    crop_input,           \* input of a stand-alone calculate_crop_dimensions call
    crop_result           \* its result

vars == <<sessionActive, temp_dir, downloaded, output_dir, source, video_path,
          video_info, requests, segments, notices, crash, rendered, ran, tool,
          commands, successful_segments, failed_segments, zip_members,
          parse_text, parse_result, crop_input, crop_result>>

sessionVars == <<sessionActive, temp_dir, downloaded, output_dir, source, video_path,
                 video_info, requests, segments, notices, crash, rendered, ran, tool,
                 commands, successful_segments, failed_segments, zip_members>>

pureVars == <<parse_text, parse_result, crop_input, crop_result>>

----------------------------------------------------------------------------
(* Bounds of the model.                                                    *)

\* Largest number of segment rows the user sets (the widget allows up to 10).
MaxSegments == 2

\* Longest time text, in ':'-separated tokens, given to the stand-alone parser.
MaxTokens == 4

\* Largest source width and height given to the stand-alone crop computation.
MaxDim == 12

\* Largest ratio component, besides 16:9 and 9:16, given to it.
MaxRatio == 4

----------------------------------------------------------------------------
(* Python values.                                                          *)

F(n) == [nan |-> FALSE, v |-> n]

NaN == [nan |-> TRUE, v |-> 0]

\* float >= float, float > float, float - float, int + float (IEEE: false / nan on nan)
Ge(a, b) == ~a.nan /\ ~b.nan /\ a.v >= b.v

Gt(a, b) == ~a.nan /\ ~b.nan /\ a.v > b.v

Sub(a, b) == IF a.nan \/ b.nan THEN NaN ELSE F(a.v - b.v)

AddInt(secs, f) == IF f.nan THEN NaN ELSE F(10 * secs + f.v)

\* The integer literals of the model's alphabet: int(tok) succeeds on these.
IntLit ==
    ("0" :> 0) @@ ("1" :> 1) @@ ("2" :> 2) @@ ("3" :> 3) @@ ("4" :> 4) @@ ("5" :> 5)
    @@ ("9" :> 9) @@ ("16" :> 16) @@ ("1080" :> 1080) @@ ("1920" :> 1920)

\* int(tok): the value, or ValueError.
PyInt(tok) ==
    IF tok \in DOMAIN IntLit THEN [tag |-> "ok", n |-> IntLit[tok]]
    ELSE [tag |-> "ValueError", n |-> 0]

\* float(tok): accepts the integer literals, decimals and "nan"; else ValueError.
PyFloat(tok) ==
    IF tok \in DOMAIN IntLit THEN [tag |-> "ok", val |-> F(10 * IntLit[tok])]
    ELSE IF tok = "1.5" THEN [tag |-> "ok", val |-> F(15)]
    ELSE IF tok = "nan" THEN [tag |-> "ok", val |-> NaN]
    ELSE [tag |-> "ValueError", val |-> F(0)]

ValueError == [tag |-> "ValueError", val |-> F(0)]

PyNone == [tag |-> "None", val |-> F(0)]

Ok(f) == [tag |-> "ok", val |-> f]

----------------------------------------------------------------------------
(* VideoSplitterApp.parse_time_input                                       *)

parse_time_input(time_str) ==
    IF Len(time_str) > 1                                   \* ':' in time_str
    THEN IF Len(time_str) = 2
         THEN LET minutes == PyInt(time_str[1])
                  seconds == PyFloat(time_str[2])
              IN  IF minutes.tag # "ok" \/ seconds.tag # "ok" THEN ValueError
                  ELSE Ok(AddInt(minutes.n * 60, seconds.val))
         ELSE IF Len(time_str) = 3
         THEN LET hours   == PyInt(time_str[1])
                  minutes == PyInt(time_str[2])
                  seconds == PyFloat(time_str[3])
              IN  IF hours.tag # "ok" \/ minutes.tag # "ok" \/ seconds.tag # "ok"
                  THEN ValueError
                  ELSE Ok(AddInt(hours.n * 3600 + minutes.n * 60, seconds.val))
         ELSE PyNone                                       \* falls off the end
    ELSE LET f == PyFloat(time_str[1])
         IN  IF f.tag = "ok" THEN Ok(f.val) ELSE ValueError

----------------------------------------------------------------------------
(* VideoSplitterApp.parse_aspect_ratio                                     *)

NoRatio == [tag |-> "None", w |-> 0, h |-> 0]

RatioError == [tag |-> "ValueError", w |-> 0, h |-> 0]

parse_aspect_ratio(ratio_str) ==
    IF ratio_str = <<"original">> THEN NoRatio
    ELSE IF Len(ratio_str) = 1 THEN RatioError             \* ':' not in ratio_str
    ELSE IF Len(ratio_str) # 2 THEN RatioError             \* unpacking two names
    ELSE LET width  == PyFloat(ratio_str[1])
             height == PyFloat(ratio_str[2])
         IN  IF width.tag # "ok" \/ height.tag # "ok" THEN RatioError
             ELSE [tag |-> "ratio", w |-> width.val.v, h |-> height.val.v]

----------------------------------------------------------------------------
(* VideoSplitterApp.calculate_crop_dimensions                              *)
(*                                                                         *)
(* The code computes in binary floating point; the model computes the same *)
(* quotients exactly: for a ratio tw:th and a source W x H,                *)
(*   target_aspect > original_aspect       <=>  tw * H > W * th            *)
(*   abs(target_aspect - original_aspect) < 0.01                           *)
(*                                          <=>  100 * |tw*H - W*th| < th*H *)
(*   int(W / target_aspect) = floor(W*th / tw),                            *)
(*   int(H * target_aspect) = floor(H*tw / th).                            *)
(* Where the exact quotient is a whole number the float product may land   *)
(* just below it and int() then truncates to one less (int(49 * (1/49)) is *)
(* 0): `slip` = 1 stands for that outcome.                                 *)

FloatToInt(num, den, slip) ==
    LET q == num \div den
    IN  IF slip = 1 /\ num % den = 0 /\ q > 0 THEN q - 1 ELSE q

Abs(n) == IF n < 0 THEN -n ELSE n

NoCrop == [tag |-> "None", width |-> 0, height |-> 0, x |-> 0, y |-> 0]

CropError == [tag |-> "ZeroDivisionError", width |-> 0, height |-> 0, x |-> 0, y |-> 0]

\* The rounding left out.
EvenSkipped(n) == n

\* "Ensure even dimensions": n - (n % 2)
Even(n) == n - (n % 2)

calculate_crop_dimensions(W, H, ratio, slip) ==
    IF ratio.tag # "ratio" THEN NoCrop                     \* target_ratio is None
    ELSE IF ratio.h = 0 \/ H = 0 THEN CropError
    ELSE LET tw == ratio.w
             th == ratio.h
         IN  IF 100 * Abs(tw * H - W * th) < th * H THEN NoCrop
             ELSE IF tw * H > W * th
             THEN LET new_height == FloatToInt(W * th, tw, slip)
                      crop_y     == (H - new_height) \div 2
                  IN  [tag |-> "crop", width |-> Even(W), height |-> Even(new_height),
                       x |-> Even(0), y |-> Even(crop_y)]
             ELSE IF tw = 0 THEN
                  [tag |-> "crop", width |-> 0, height |-> Even(H),
                   x |-> Even(W \div 2), y |-> 0]
             ELSE LET new_width == FloatToInt(H * tw, th, slip)
                      crop_x    == (W - new_width) \div 2
                  IN  [tag |-> "crop", width |-> Even(new_width), height |-> Even(H),
                       x |-> Even(crop_x), y |-> Even(0)]

----------------------------------------------------------------------------
(* VideoSplitterApp.get_video_info                                         *)
(*                                                                         *)
(* A source is what the two ffprobe calls print for it: exit codes, the    *)
(* duration line, and the "width,height" line split on ','.                *)

NoDims == [tag |-> "None", w |-> 0, h |-> 0]

NoVideoInfo == [duration |-> PyNone, dimensions |-> NoDims]

get_video_info(src) ==
    LET durf == PyFloat(src.dur_out)
    IN  IF src.dur_rc = 0 /\ durf.tag # "ok" THEN NoVideoInfo          \* except branch
        ELSE LET duration == IF src.dur_rc = 0 THEN Ok(durf.val) ELSE PyNone
             IN  IF src.dim_rc # 0
                 THEN [duration |-> duration, dimensions |-> NoDims]
                 ELSE IF Len(src.dim_out) # 2 THEN NoVideoInfo         \* unpack fails
                 ELSE LET width  == PyInt(src.dim_out[1])
                          height == PyInt(src.dim_out[2])
                      IN  IF width.tag # "ok" \/ height.tag # "ok" THEN NoVideoInfo
                          ELSE [duration |-> duration,
                                dimensions |-> [tag |-> "dims", w |-> width.n, h |-> height.n]]

----------------------------------------------------------------------------
(* VideoSplitterApp.seconds_to_time: "M:SS.ss" as <<minutes, tenths of a   *)
(* second below the minute>>; None // 60 raises TypeError.                 *)

seconds_to_time(seconds) ==
    IF seconds.tag = "None" THEN [tag |-> "TypeError", text |-> <<0, 0>>]
    ELSE IF seconds.val.nan THEN [tag |-> "ValueError", text |-> <<0, 0>>]
    ELSE [tag |-> "ok", text |-> <<seconds.val.v \div 600, seconds.val.v % 600>>]

----------------------------------------------------------------------------
(* main, lines 311-374: the planning loop over the segment rows.           *)
(*                                                                         *)
(* A row is [start, end, ratio], the three widget texts.  The loop's       *)
(* result is the list `segments`, the messages it showed (each naming the  *)
(* row, i+1) and the exception, if any, that left the loop uncaught.       *)

EmptyText == <<"">>

DefaultRow == [start |-> EmptyText, end |-> EmptyText, ratio |-> <<"original">>]

Notice(i, kind) == [req |-> i, kind |-> kind]

PlanRow(acc, i, row, D) ==
    IF row.start = EmptyText \/ row.end = EmptyText THEN acc     \* if start_time and end_time
    ELSE
    LET start_seconds == parse_time_input(row.start)
        end_seconds   == parse_time_input(row.end)
        invalid       == [acc EXCEPT !.notices = Append(@, Notice(i, "invalid_format"))]
    IN  IF start_seconds.tag = "ValueError" \/ end_seconds.tag = "ValueError"
        THEN invalid                                             \* except ValueError
        ELSE IF start_seconds.tag = "None" \/ end_seconds.tag = "None"
        THEN [acc EXCEPT !.crash = "planning"]                   \* None >= x: TypeError
        ELSE IF Ge(start_seconds.val, end_seconds.val)
        THEN [acc EXCEPT !.notices = Append(@, Notice(i, "start_not_before_end"))]
        ELSE IF Ge(start_seconds.val, D)
        THEN [acc EXCEPT !.notices = Append(@, Notice(i, "start_exceeds_duration"))]
        ELSE
        LET clamp    == Gt(end_seconds.val, D)
            end2     == IF clamp THEN D ELSE end_seconds.val
            warned   == IF clamp
                        THEN [acc EXCEPT !.notices = Append(@, Notice(i, "end_adjusted"))]
                        ELSE acc
            duration == Sub(end2, start_seconds.val)
            parsed_ratio == parse_aspect_ratio(row.ratio)
        IN  IF parsed_ratio.tag = "ValueError"
            THEN [warned EXCEPT !.notices = Append(@, Notice(i, "invalid_format"))]
            ELSE [warned EXCEPT
                    !.segments = Append(@, [start |-> start_seconds.val,
                                            end |-> end2,
                                            duration |-> duration,
                                            aspect_ratio |-> parsed_ratio,
                                            ratio_text |-> row.ratio]),
                    !.notices = Append(@, Notice(i, "success"))]

RECURSIVE PlanLoop(_, _, _, _)
PlanLoop(acc, i, rows, D) ==
    IF i > Len(rows) \/ acc.crash # "none" THEN [acc EXCEPT !.rendered = i - 1]
    ELSE PlanLoop(PlanRow(acc, i, rows[i], D), i + 1, rows, D)

NoPlan == [segments |-> <<>>, notices |-> <<>>, crash |-> "none", rendered |-> 0]

\* main, lines 294-374: the page below the sidebar, up to the planning loop's end.
Page(path, info, rows) ==
    IF path = "None" THEN NoPlan                                  \* welcome message
    ELSE IF seconds_to_time(info.duration).tag # "ok"
    THEN [NoPlan EXCEPT !.crash = "seconds_to_time"]              \* line 300
    ELSE PlanLoop(NoPlan, 1, rows, info.duration.val)

----------------------------------------------------------------------------
(* VideoSplitterApp.process_segment                                        *)
(*                                                                         *)
(* ffmpeg is the environment: it exits 0, exits non-zero or runs into the  *)
(* 120 s timeout, and in each case has written the output file or not.     *)

\* f"video_part_{index:02d}.mp4"
OutputName(index) == <<"video_part_", index \div 10, index % 10, ".mp4">>

NotRun == [exit |-> "not run", wrote |-> FALSE]

\* Exit 0 with the file written, exit 0 without a file, a non-zero exit that
\* wrote nothing, and a timeout that leaves the partly written file behind.
ToolOutcomes ==
    { [exit |-> "0", wrote |-> TRUE],
      [exit |-> "0", wrote |-> FALSE],
      [exit |-> "1", wrote |-> FALSE],
      [exit |-> "timeout", wrote |-> TRUE] }

\* The segment reaches the ffmpeg call (lines 193-202 return or raise before it).
ReachesTool(segment, src) ==
    \/ segment.aspect_ratio.tag # "ratio"
    \/ /\ get_video_info(src).dimensions.tag = "dims"
       /\ calculate_crop_dimensions(get_video_info(src).dimensions.w,
                                    get_video_info(src).dimensions.h,
                                    segment.aspect_ratio, 0).tag # "ZeroDivisionError"

\* What ffmpeg does for a segment: nothing when the call is not reached; it
\* refuses "-ss nan" / "-t nan" with a non-zero exit before writing anything;
\* otherwise any of its outcomes.
ToolRun(segment, src, outcome) ==
    IF ~ReachesTool(segment, src) THEN NotRun
    ELSE IF segment.start.nan \/ segment.duration.nan
    THEN [exit |-> "1", wrote |-> FALSE]
    ELSE outcome

process_segment(src, segment, index, dir, t) ==
    LET output_path == OutputName(index)
        dimensions  == get_video_info(src).dimensions
        crop_info   == IF segment.aspect_ratio.tag = "ratio"
                       THEN calculate_crop_dimensions(dimensions.w, dimensions.h,
                                                      segment.aspect_ratio, 0)
                       ELSE NoCrop
        after       == IF t.wrote THEN dir \cup {output_path} ELSE dir
        command     == [out |-> output_path, ss |-> segment.start,
                        t |-> segment.duration, crop |-> crop_info]
    IN  IF segment.aspect_ratio.tag = "ratio" /\ dimensions.tag # "dims"
        THEN [success |-> FALSE, result |-> "Could not get video dimensions",
              dir |-> dir, commands |-> <<>>]
        ELSE IF crop_info.tag = "ZeroDivisionError"
        THEN [success |-> FALSE, result |-> "Exception", dir |-> dir, commands |-> <<>>]
        ELSE IF t.exit = "timeout"
        THEN [success |-> FALSE, result |-> "Exception", dir |-> after,
              commands |-> <<command>>]
        ELSE IF t.exit = "0" /\ output_path \in after
        THEN [success |-> TRUE, result |-> output_path, dir |-> after,
              commands |-> <<command>>]
        ELSE [success |-> FALSE, result |-> "FFmpeg error", dir |-> after,
              commands |-> <<command>>]

\* VideoSplitterApp.create_zip_file: every *.mp4 of the output directory.
create_zip_file(dir) == {filename \in dir : filename[Len(filename)] = ".mp4"}

----------------------------------------------------------------------------
(* main, lines 379-442: "Process All Segments".                            *)

NoRun == [successful_segments |-> <<>>, failed_segments |-> <<>>,
          dir |-> {}, commands |-> <<>>]

\* Lines 391-396: the result of segment i goes to one of the two lists.
Record(acc, i, r) ==
    [successful_segments |->
         IF r.success THEN Append(acc.successful_segments, r.result)
         ELSE acc.successful_segments,
     failed_segments |->
         IF r.success THEN acc.failed_segments
         ELSE Append(acc.failed_segments, [index |-> i, result |-> r.result]),
     dir |-> r.dir,
     commands |-> acc.commands \o r.commands]

RECURSIVE ProcessLoop(_, _, _, _, _)
ProcessLoop(acc, i, src, segs, tl) ==
    IF i > Len(segs) THEN acc
    ELSE ProcessLoop(Record(acc, i, process_segment(src, segs[i], i, acc.dir, tl[i])),
                     i + 1, src, segs, tl)

\* The loop leaving at the first failed segment.
RECURSIVE ProcessLoopBreak(_, _, _, _, _)
ProcessLoopBreak(acc, i, src, segs, tl) ==
    IF i > Len(segs) \/ acc.failed_segments # <<>> THEN acc
    ELSE ProcessLoopBreak(Record(acc, i, process_segment(src, segs[i], i, acc.dir, tl[i])),
                          i + 1, src, segs, tl)

ProcessAllBreak(src, segs, dir, tl) ==
    ProcessLoopBreak([NoRun EXCEPT !.dir = dir], 1, src, segs, tl)

ProcessAll(src, segs, dir, tl) ==
    ProcessLoop([NoRun EXCEPT !.dir = dir], 1, src, segs, tl)

NoZip == [built |-> FALSE, names |-> {}]

----------------------------------------------------------------------------
(* The session.                                                            *)
(*                                                                         *)
(* Every user interaction reruns the page script once; an action is one    *)
(* such script run, from the widget values to everything it shows.  The    *)
(* script's local lists are kept as the result of the last run.  A segment *)
(* row that a run does not render loses its texts (the framework drops the *)
(* state of widgets a run does not draw).                                  *)

NoneInfo == [tag |-> "None"]

NoSource == [dur_rc |-> 1, dur_out |-> "", dim_rc |-> 1, dim_out |-> <<"">>]

\* Sources the download can deliver, by what ffprobe prints for them.
Sources ==
    { [dur_rc |-> 0, dur_out |-> "3", dim_rc |-> 0, dim_out |-> <<"1920", "1080">>],
      [dur_rc |-> 0, dur_out |-> "3", dim_rc |-> 1, dim_out |-> <<"">>],
      [dur_rc |-> 0, dur_out |-> "3", dim_rc |-> 0, dim_out |-> <<"">>],
      [dur_rc |-> 1, dur_out |-> "",  dim_rc |-> 0, dim_out |-> <<"1920", "1080">>] }

\* Rows the user fills in: unfilled, malformed, rejected and valid ones.
RequestRows ==
    { [start |-> <<"">>,                   end |-> <<"5">>,      ratio |-> <<"original">>],
      [start |-> <<"abc">>,                end |-> <<"5">>,      ratio |-> <<"original">>],
      [start |-> <<"1", "2", "3", "4">>,   end |-> <<"5">>,      ratio |-> <<"original">>],
      [start |-> <<"nan">>,                end |-> <<"5">>,      ratio |-> <<"original">>],
      [start |-> <<"2">>,                  end |-> <<"1">>,      ratio |-> <<"9", "16">>],
      [start |-> <<"4">>,                  end |-> <<"0", "5">>, ratio |-> <<"original">>],
      [start |-> <<"1">>,                  end |-> <<"2">>,      ratio |-> <<"original">>],
      [start |-> <<"1.5">>,                end |-> <<"0", "5">>, ratio |-> <<"9", "16">>] }

Urls == {"", "https://www.youtube.com/watch?v=x"}

KeepRendered(rows, n) ==
    [i \in 1..Len(rows) |-> IF i <= n THEN rows[i] ELSE DefaultRow]

Resize(rows, n) ==
    [i \in 1..n |-> IF i <= Len(rows) THEN rows[i] ELSE DefaultRow]

\* One run of the page below the sidebar without the process button.
Render(path, info, rows) ==
    \E page \in {Page(path, info, rows)} :
        /\ requests' = KeepRendered(rows, page.rendered)
        /\ segments' = page.segments
        /\ notices' = page.notices
        /\ crash' = page.crash
        /\ rendered' = page.rendered
        /\ ran' = FALSE
        /\ tool' = <<>>
        /\ commands' = <<>>
        /\ successful_segments' = <<>>
        /\ failed_segments' = <<>>
        /\ zip_members' = NoZip

InitSession ==
    /\ sessionActive = TRUE
    /\ temp_dir = TRUE
    /\ downloaded = FALSE
    /\ output_dir = {}
    /\ source = NoSource
    /\ video_path = "None"
    /\ video_info = NoneInfo
    /\ requests = <<DefaultRow>>
    /\ segments = <<>>
    /\ notices = <<>>
    /\ crash = "none"
    /\ rendered = 0
    /\ ran = FALSE
    /\ tool = <<>>
    /\ commands = <<>>
    /\ successful_segments = <<>>
    /\ failed_segments = <<>>
    /\ zip_members = NoZip

IdleParse == [tag |-> "idle", val |-> F(0)]

IdleCrop == [NoCrop EXCEPT !.tag = "idle"]

InitPure ==
    /\ parse_text = EmptyText
    /\ parse_result = IdleParse
    /\ crop_input = [W |-> 0, H |-> 0, ratio |-> NoRatio]
    /\ crop_result = IdleCrop

\* VideoSplitterApp.__init__ has run: the session holds its scratch directory.
Init == InitSession /\ InitPure

\* main, lines 274-291: "Download & Analyze Video".
Download(url, outcome, src) ==
    /\ sessionActive
    /\ IF url = ""
       THEN /\ UNCHANGED <<video_path, video_info, source, downloaded>>
            /\ Render(video_path, video_info, requests)
       ELSE IF outcome = "failed"
       THEN /\ video_path' = "None"
            /\ video_info' = NoneInfo
            /\ UNCHANGED <<source, downloaded>>
            /\ Render("None", NoneInfo, requests)
       ELSE /\ video_path' = "downloaded_video.mp4"
            /\ video_info' = get_video_info(src)
            /\ source' = src
            /\ downloaded' = TRUE
            /\ Render("downloaded_video.mp4", get_video_info(src),
                      KeepRendered(requests, 0))
    /\ UNCHANGED <<sessionActive, temp_dir, output_dir>>
    /\ UNCHANGED pureVars

\* main, line 271: the number-of-segments widget changes.
SetNumSegments(n) ==
    /\ sessionActive
    /\ n # Len(requests)
    /\ Render(video_path, video_info, Resize(requests, n))
    /\ UNCHANGED <<sessionActive, temp_dir, downloaded, output_dir, source,
                   video_path, video_info>>
    /\ UNCHANGED pureVars

\* main, lines 313-340: the user fills in row i.
EditRow(i, row) ==
    /\ sessionActive
    /\ i <= rendered
    /\ Render(video_path, video_info, [requests EXCEPT ![i] = row])
    /\ UNCHANGED <<sessionActive, temp_dir, downloaded, output_dir, source,
                   video_path, video_info>>
    /\ UNCHANGED pureVars

\* main, lines 379-442: the process button, shown when `segments` is not empty.
Process ==
    /\ sessionActive
    /\ crash = "none"
    /\ segments # <<>>
    /\ \E page \in {Page(video_path, video_info, requests)} :
       \E choice \in [1..Len(page.segments) -> ToolOutcomes] :
       \E tl \in {[k \in 1..Len(page.segments) |->
                     ToolRun(page.segments[k], source, choice[k])]} :
       \E run \in {ProcessAll(source, page.segments, output_dir, tl)} :
          /\ requests' = KeepRendered(requests, page.rendered)
          /\ segments' = page.segments
          /\ notices' = page.notices
          /\ crash' = page.crash
          /\ rendered' = page.rendered
          /\ ran' = TRUE
          /\ tool' = tl
          /\ commands' = run.commands
          /\ successful_segments' = run.successful_segments
          /\ failed_segments' = run.failed_segments
          /\ output_dir' = run.dir
          /\ zip_members' = IF run.successful_segments # <<>>
                            THEN [built |-> TRUE, names |-> create_zip_file(run.dir)]
                            ELSE NoZip
    /\ UNCHANGED <<sessionActive, temp_dir, downloaded, source, video_path, video_info>>
    /\ UNCHANGED pureVars

\* The session ends (the browser tab closes): st.session_state, and with it the
\* VideoSplitterApp object, is dropped.  No code of the program runs.
EndSession ==
    /\ sessionActive
    /\ sessionActive' = FALSE
    /\ video_path' = "None"
    /\ video_info' = NoneInfo
    /\ requests' = <<DefaultRow>>
    /\ segments' = <<>>
    /\ notices' = <<>>
    /\ crash' = "none"
    /\ rendered' = 0
    /\ ran' = FALSE
    /\ tool' = <<>>
    /\ commands' = <<>>
    /\ successful_segments' = <<>>
    /\ failed_segments' = <<>>
    /\ zip_members' = NoZip
    /\ UNCHANGED <<temp_dir, downloaded, output_dir, source>>
    /\ UNCHANGED pureVars

Next ==
    \/ \E url \in Urls, outcome \in {"failed", "downloaded"}, src \in Sources :
           Download(url, outcome, src)
    \/ \E n \in 1..MaxSegments : SetNumSegments(n)
    \/ \E i \in 1..MaxSegments, row \in RequestRows : EditRow(i, row)
    \/ Process
    \/ EndSession

Spec == Init /\ [][Next]_vars

----------------------------------------------------------------------------
(* parse_time_input alone, on every text of up to MaxTokens tokens.        *)

TimeTokens == {"", "abc", "1.5", "0", "1", "2", "3", "4", "5", "9"}

TimeTexts == UNION {[1..n -> TimeTokens] : n \in 1..MaxTokens}

InitParse ==
    /\ InitSession
    /\ parse_text \in TimeTexts
    /\ parse_result = IdleParse
    /\ crop_input = [W |-> 0, H |-> 0, ratio |-> NoRatio]
    /\ crop_result = IdleCrop

ParseCall ==
    /\ parse_result = IdleParse
    /\ parse_result' = parse_time_input(parse_text)
    /\ UNCHANGED <<parse_text, crop_input, crop_result>>
    /\ UNCHANGED sessionVars

NextParse == ParseCall

SpecParse == InitParse /\ [][NextParse]_vars

----------------------------------------------------------------------------
(* calculate_crop_dimensions alone, on every source of up to MaxDim pixels *)
(* a side and every ratio of the selectbox or of up to MaxRatio a side.    *)

Ratio(w, h) == [tag |-> "ratio", w |-> w, h |-> h]

CropRatios ==
    {Ratio(16, 9), Ratio(9, 16)} \cup {Ratio(w, h) : w \in 1..MaxRatio, h \in 1..MaxRatio}

InitCrop ==
    /\ InitSession
    /\ parse_text = EmptyText
    /\ parse_result = IdleParse
    /\ crop_input \in [W : 1..MaxDim, H : 1..MaxDim, ratio : CropRatios]
    /\ crop_result = IdleCrop

CropCall ==
    /\ crop_result = IdleCrop
    /\ \E slip \in {0, 1} :
          crop_result' = calculate_crop_dimensions(crop_input.W, crop_input.H,
                                                   crop_input.ratio, slip)
    /\ UNCHANGED <<parse_text, parse_result, crop_input>>
    /\ UNCHANGED sessionVars

NextCrop == CropCall

SpecCrop == InitCrop /\ [][NextCrop]_vars

----------------------------------------------------------------------------
(* Properties.                                                             *)

Range(seq) == {seq[k] : k \in DOMAIN seq}

ErrorKinds == {"invalid_format", "start_not_before_end", "start_exceeds_duration"}

\* The page came as far as the planning loop.
Configuring == video_path # "None" /\ crash # "seconds_to_time"

\* The rows for which planning left a plan or an error entry, in the order shown.
OutcomeRows ==
    LET shown == SelectSeq(notices, LAMBDA m : m.kind \in ErrorKinds \cup {"success"})
    IN  [k \in DOMAIN shown |-> shown[k].req]

\* The row each entry of `segments` was planned from.
PlannedRows ==
    LET shown == SelectSeq(notices, LAMBDA m : m.kind = "success")
    IN  [k \in DOMAIN shown |-> shown[k].req]

\* The index a result carries: the two digits of an output name.
IndexOf(name) == 10 * name[2] + name[3]

\* C1: planning leaves exactly one outcome (a plan or an error entry) per
\* request, in input order, whatever the mix of valid, invalid and malformed
\* requests: the outcomes are those of rows 1, 2, ..., n.
C1_OneOutcomePerRequest ==
    Configuring => OutcomeRows = [k \in 1..Len(requests) |-> k]

\* C2: a planned segment keeps the 1-based position of its request as its
\* index and its output file is named from that index: after a run, the
\* result of every segment is filed under the row it was planned from.  Every
\* ffmpeg call writes the file named from the row its segment came from.
C2_IndexIsRequestPosition ==
    ran =>
      /\ \A k \in DOMAIN segments :
            \/ OutputName(PlannedRows[k]) \in Range(successful_segments)
            \/ \E j \in DOMAIN failed_segments :
                  failed_segments[j].index = PlannedRows[k]
      /\ \A c \in DOMAIN commands :
            \E k \in DOMAIN segments :
               /\ commands[c].out = OutputName(PlannedRows[k])
               /\ commands[c].ss = segments[k].start
               /\ commands[c].t = segments[k].duration

\* C3: a malformed or invalid request is recorded as that row's error; planning
\* never ends in an uncaught exception and every row after it is still drawn
\* and planned.
C3_PlanningNeverRaises ==
    Configuring => (crash = "none" /\ rendered = Len(requests))

\* The segment's own run decides its result: ffmpeg exited 0 and the output
\* file is there.
OwnSuccess(k) == tool[k].exit = "0" /\ OutputName(k) \in output_dir

\* C4: in a processing run over n planned segments every segment is attempted
\* and yields exactly one outcome, decided by its own run alone (a non-zero
\* exit, a missing output, unavailable dimensions or a timeout fails that
\* segment only); successes plus failures make n, each list in segment order.
C4_EverySegmentOneOutcome ==
    ran =>
      /\ Len(successful_segments) + Len(failed_segments) = Len(segments)
      /\ DOMAIN tool = DOMAIN segments
      /\ \A k \in DOMAIN segments :
            /\ OwnSuccess(k) <=> OutputName(k) \in Range(successful_segments)
            /\ ~OwnSuccess(k) <=> \E j \in DOMAIN failed_segments :
                                     failed_segments[j].index = k
      /\ \A i, j \in DOMAIN successful_segments :
            i < j => IndexOf(successful_segments[i]) < IndexOf(successful_segments[j])
      /\ \A i, j \in DOMAIN failed_segments :
            i < j => failed_segments[i].index < failed_segments[j].index

\* A run in which the first segment failed (its ffmpeg call did not exit 0 or
\* was never reached) and the second one still ran and succeeded.
C4_Witness ==
    /\ ran
    /\ Len(segments) >= 2
    /\ tool[1].exit # "0"
    /\ failed_segments # <<>>
    /\ failed_segments[1].index = 1
    /\ OutputName(2) \in Range(successful_segments)

\* C5: the archive built for a run holds exactly the output files of that
\* run's successful segments, after any sequence of runs in the session.
C5_ArchiveIsTheSuccesses ==
    zip_members.built => zip_members.names = Range(successful_segments)

\* |tw/th - W/H| >= 0.01
OutsideTolerance(W, H, ratio) ==
    100 * Abs(ratio.w * H - W * ratio.h) >= ratio.h * H

\* tw/th > W/H
TargetWider(W, H, ratio) == ratio.w * H > W * ratio.h

C7_PlanWithinSource ==
    Configuring =>
      /\ \A k \in DOMAIN segments :
            /\ ~segments[k].start.nan /\ ~segments[k].duration.nan
            /\ segments[k].duration = Sub(segments[k].end, segments[k].start)
            /\ segments[k].duration.v > 0
            /\ segments[k].start.v < video_info.duration.val.v
            /\ segments[k].start.v + segments[k].duration.v <= video_info.duration.val.v
      /\ \A i \in 1..rendered :
            LET s == parse_time_input(requests[i].start)
                e == parse_time_input(requests[i].end)
            IN  (requests[i].start # EmptyText /\ requests[i].end # EmptyText
                   /\ s.tag = "ok" /\ e.tag = "ok" /\ ~s.val.nan /\ ~e.val.nan) =>
                  IF s.val.v >= e.val.v
                  THEN Notice(i, "start_not_before_end") \in Range(notices)
                  ELSE IF s.val.v >= video_info.duration.val.v
                  THEN Notice(i, "start_exceeds_duration") \in Range(notices)
                  ELSE Notice(i, "success") \in Range(notices)

\* C8: the scratch directory made at session start, with the downloaded
\* source and the segment files in it, is gone once the session has ended.
C8_ScratchReclaimed ==
    ~sessionActive => (~temp_dir /\ ~downloaded /\ output_dir = {})

\* A plain number, MM:SS or HH:MM:SS: whole minutes and hours, seconds a number.
WholeNumber(tok) == tok \in DOMAIN IntLit

Number(tok) == WholeNumber(tok) \/ tok = "1.5"

TimeFormat(text) ==
    \/ Len(text) = 1 /\ Number(text[1])
    \/ Len(text) = 2 /\ WholeNumber(text[1]) /\ Number(text[2])
    \/ Len(text) = 3 /\ WholeNumber(text[1]) /\ WholeNumber(text[2]) /\ Number(text[3])

\* C9: parsing fails with a format error on every text that is not a plain
\* number, MM:SS or HH:MM:SS (any other token count, non-numeric text, the
\* empty text); it never returns an absent or non-numeric value instead.
C9_ParseFailsOnBadFormat ==
    parse_result.tag # "idle" =>
      /\ ~TimeFormat(parse_text) => parse_result.tag = "ValueError"
      /\ parse_result.tag # "None"
      /\ parse_result.tag = "ok" => ~parse_result.val.nan

\* C10: a probe without dimensions or without duration is a value, not a
\* crash: the page still reaches the segment configuration, Original segments
\* are planned and extracted, and only segments that need a crop fail, with
\* the dimensions-unavailable failure.
C10_ProbeAbsenceHandled ==
    (video_path # "None"
       /\ (video_info.dimensions.tag = "None" \/ video_info.duration.tag = "None")) =>
      /\ crash # "seconds_to_time"
      /\ rendered > 0
      /\ ran =>
           \A k \in DOMAIN segments :
              IF segments[k].aspect_ratio.tag = "ratio"
              THEN [index |-> k, result |-> "Could not get video dimensions"]
                      \in Range(failed_segments)
              ELSE OwnSuccess(k) <=> OutputName(k) \in Range(successful_segments)
====
